---- MODULE Spec2Model ----
(***************************************************************************)
(* A model of the panchang library (src/src/panchang.ts): the context-     *)
(* passing PanchangCalculator and the legacy PanchangUtils / Panchang      *)
(* pair that the same file still carries.                                  *)
(*                                                                         *)
(* Angles are integers counted in thousandths of a degree, instants are    *)
(* integers counted in ticks of 1/14400 day (6 s) since the engine epoch   *)
(* JD 2415020.0.  The tolerance of the boundary solvers (0.001 degree) is  *)
(* one angular unit.                                                       *)
(***************************************************************************)
EXTENDS Integers, Sequences, FiniteSets, TLC

VARIABLES
    aFn,        \* angle machine: which function runs ("normalizeAngle" | "fix360")
    aArg,       \* angle machine: the argument it was called with
    aVal,       \* angle machine: the local variable `angle` / `v`
    aPc,        \* angle machine: "low" (first loop), "high" (second loop), "done"
    mode,       \* how the calculate invocations are scheduled
    inv,        \* per invocation: request, position in calculate, locals, result
    scratch,    \* scratch cells: [0] the PanchangUtils module-level variables,
                \* [i] the CalculationContext of invocation i
    clock,      \* the wall clock that `new Date()` reads
    kep,        \* Kepler machine: the arguments and locals of solveKepler
    cal         \* calendar machine: a civil date, its Julian date and what the
                \* time converter functions return for them

angleVars == <<aFn, aArg, aVal, aPc>>

calcVars == <<mode, inv, scratch, clock>>

keplerVars == <<kep>>

calendarVars == <<cal>>

vars == <<aFn, aArg, aVal, aPc, mode, inv, scratch, clock, kep, cal>>

----------------------------------------------------------------------------
(* Units                                                                   *)

UnitsPerDeg == 1000

Circle == 360 * UnitsPerDeg

Abs(x) == IF x < 0 THEN -x ELSE x

\* The arguments and locals of one solveKepler call: the mean anomaly m, the
\* eccentricity ex (thousandths), the tolerance err, the eccentric anomaly
\* u0, delta and what kind of double it is, the iterations made.
KeplerCall(m, ex, err, u0, delta, state, iter, pc) ==
    [m |-> m, ex |-> ex, err |-> err, u0 |-> u0, delta |-> delta,
     state |-> state, iter |-> iter, pc |-> pc]

IdleKepler == KeplerCall(0, 0, 0, 0, 0, "finite", 0, "idle")

\* The calendar machine at rest.
IdleCalendar == [pc |-> "idle"]

----------------------------------------------------------------------------
(* normalizeAngle / fix360                                                 *)

\* Magnitude from which an IEEE double no longer changes when 360 is added
\* or subtracted (2^62 degrees in the program); the model's stand-in value.
AbsorbLimit == 1000000000

\* `angle += 360` and `angle -= 360` in double arithmetic: exact for the
\* magnitudes the engine works with, absorbed above AbsorbLimit.
FloatAdd(x, d) == IF Abs(x) >= AbsorbLimit THEN x ELSE x + d

\* The closed form of the two loops for an exact (unabsorbed) argument.
Mod360(a) == a % Circle

\* The two loops of normalizeAngle, run to completion.  Only applied to
\* arguments below AbsorbLimit, for which both loops end.
RECURSIVE normalizeAngle(_)
normalizeAngle(angle) ==
    IF angle < 0 THEN normalizeAngle(FloatAdd(angle, Circle))
    ELSE IF angle >= Circle THEN normalizeAngle(FloatAdd(angle, -Circle))
    ELSE angle

\* PanchangUtils.fix360: the same two loops.
RECURSIVE fix360(_)
fix360(v) ==
    IF v < 0 THEN fix360(FloatAdd(v, Circle))
    ELSE IF v >= Circle THEN fix360(FloatAdd(v, -Circle))
    ELSE v

\* Arguments of the angle machine: whole turns around a few residues, and
\* one finite value of each sign beyond the absorption limit.
MaxTurns == 3

ResidueSamples == {0, 1, 180 * UnitsPerDeg, Circle - 1}

AngleInputs ==
    {k * Circle + r : k \in (-MaxTurns)..MaxTurns, r \in ResidueSamples}
        \cup {AbsorbLimit, -AbsorbLimit}

AngleInit ==
    /\ aFn \in {"normalizeAngle", "fix360"}
    /\ aArg \in AngleInputs
    /\ aVal = aArg
    /\ aPc = "low"
    /\ mode = "none"
    /\ inv = <<>>
    /\ scratch = <<>>
    /\ clock = 0
    /\ kep = IdleKepler
    /\ cal = IdleCalendar

\* while (angle < 0) angle += 360;
NormalizeRaise ==
    /\ aPc = "low"
    /\ aVal < 0
    /\ aVal' = FloatAdd(aVal, Circle)
    /\ UNCHANGED <<aFn, aArg, aPc>>
    /\ UNCHANGED <<calcVars, keplerVars, calendarVars>>

\* the first loop's condition fails: on to the second loop
NormalizeRaised ==
    /\ aPc = "low"
    /\ ~(aVal < 0)
    /\ aPc' = "high"
    /\ UNCHANGED <<aFn, aArg, aVal>>
    /\ UNCHANGED <<calcVars, keplerVars, calendarVars>>

\* while (angle >= 360) angle -= 360;
NormalizeLower ==
    /\ aPc = "high"
    /\ aVal >= Circle
    /\ aVal' = FloatAdd(aVal, -Circle)
    /\ UNCHANGED <<aFn, aArg, aPc>>
    /\ UNCHANGED <<calcVars, keplerVars, calendarVars>>

\* return angle;
NormalizeReturn ==
    /\ aPc = "high"
    /\ ~(aVal >= Circle)
    /\ aPc' = "done"
    /\ UNCHANGED <<aFn, aArg, aVal>>
    /\ UNCHANGED <<calcVars, keplerVars, calendarVars>>

AngleNext == NormalizeRaise \/ NormalizeRaised \/ NormalizeLower \/ NormalizeReturn

SpecAngle == AngleInit /\ [][AngleNext]_vars

\* C10: normalizeAngle (and fix360) returns a value in [0, 360) congruent to
\* its argument modulo 360, is idempotent, and terminates for every finite
\* argument: every pass through either loop moves the value, so that the
\* loop's condition cannot hold for ever.
NormalizeAngleContract ==
    /\ aPc = "done" =>
           /\ aVal \in 0..(Circle - 1)
           /\ (aVal - aArg) % Circle = 0
           /\ Mod360(aVal) = aVal
    /\ (aPc = "low" /\ aVal < 0) => FloatAdd(aVal, Circle) > aVal
    /\ (aPc = "high" /\ aVal >= Circle) => FloatAdd(aVal, -Circle) < aVal

----------------------------------------------------------------------------
(* solveKepler / PanchangUtils.kepler                                      *)

\* Radians to angular units: 57.29578 degrees.
UnitsPerRadian == 57296

\* Sines and cosines are kept in thousandths.
TrigScale == 1000

\* Math.sin on 0..180 degrees, by Bhaskara's rational approximation
\* 4x(180 - x) / (40500 - x(180 - x)), x in hundredths of a degree.
HalfWaveSine(x) ==
    LET xc == x \div 10
        p == xc * (18000 - xc)
    IN (4 * p) \div ((405000000 - p) \div TrigScale)

Sine(x) ==
    LET r == x % Circle
    IN IF r < 180 * UnitsPerDeg THEN HalfWaveSine(r)
       ELSE -HalfWaveSine(r - 180 * UnitsPerDeg)

Cosine(x) == Sine(x + 90 * UnitsPerDeg)

\* The numerator with the cosine where the source has the sine.
KeplerNumeratorCosine(m, ex, u0) ==
    m - u0 + (((ex * Cosine(u0)) \div TrigScale) * UnitsPerRadian) \div TrigScale

\* meanAnomaly + eccentricity * Math.sin(eccentricAnomaly) - eccentricAnomaly
KeplerNumerator(m, ex, u0) ==
    m - u0 + (((ex * Sine(u0)) \div TrigScale) * UnitsPerRadian) \div TrigScale

\* 1 - eccentricity * Math.cos(eccentricAnomaly), in thousandths
KeplerDenominator(ex, u0) == TrigScale - (ex * Cosine(u0)) \div TrigScale

\* numerator / denominator (denominator # 0), truncated
KeplerQuotient(num, den) ==
    LET a == Abs(num)
        b == Abs(den)
        mag == (a \div b) * TrigScale + ((a % b) * TrigScale) \div b
    IN IF (num >= 0) = (den > 0) THEN mag ELSE -mag

\* Iterations of one call that are followed.
MaxKeplerIter == 60

KeplerAnomalies == {0, 45 * UnitsPerDeg, 90 * UnitsPerDeg}

\* a circular orbit, the Sun's eccentricity, a larger one, a parabolic orbit
KeplerEccentricities == {0, 17, 55, TrigScale}

\* the tolerance the engine passes rounds to one unit; 0 asks for an exact root
KeplerTolerances == {0, 1}

\* let eccentricAnomaly = meanAnomaly; let delta = 1;
KeplerInit ==
    /\ \E m \in KeplerAnomalies, ex \in KeplerEccentricities, err \in KeplerTolerances :
           kep = KeplerCall(m, ex, err, m, UnitsPerRadian, "finite", 0, "loop")
    /\ aFn = "none" /\ aArg = 0 /\ aVal = 0 /\ aPc = "done"
    /\ mode = "none"
    /\ inv = <<>>
    /\ scratch = <<>>
    /\ clock = 0
    /\ cal = IdleCalendar

\* while (Math.abs(delta) >= toleranceDegrees): false for a NaN delta
KeplerContinues(k) ==
    \/ k.state = "infinite"
    \/ k.state = "finite" /\ Abs(k.delta) >= k.err

\* One pass through the loop body: delta = ... ; eccentricAnomaly += delta.
\* A zero denominator makes delta infinite (NaN when the numerator is zero
\* too), and every value computed from an infinite anomaly is NaN.
KeplerIterate ==
    /\ kep.pc = "loop"
    /\ KeplerContinues(kep)
    /\ kep.iter < MaxKeplerIter
    /\ LET num == KeplerNumerator(kep.m, kep.ex, kep.u0)
           den == KeplerDenominator(kep.ex, kep.u0)
       IN kep' =
            IF kep.state = "infinite"
            THEN [kep EXCEPT !.state = "nan", !.iter = @ + 1]
            ELSE IF den = 0
            THEN [kep EXCEPT !.state = IF num = 0 THEN "nan" ELSE "infinite",
                             !.iter = @ + 1]
            ELSE [kep EXCEPT !.delta = KeplerQuotient(num, den),
                             !.u0 = @ + KeplerQuotient(num, den),
                             !.iter = @ + 1]
    /\ UNCHANGED <<angleVars, calcVars, calendarVars>>

\* return eccentricAnomaly;
KeplerReturn ==
    /\ kep.pc = "loop"
    /\ ~KeplerContinues(kep)
    /\ kep' = [kep EXCEPT !.pc = "done"]
    /\ UNCHANGED <<angleVars, calcVars, calendarVars>>

KeplerNext == KeplerIterate \/ KeplerReturn

SpecKepler == KeplerInit /\ [][KeplerNext]_vars

\* The suggested cap on the Newton iterations of one call.
KeplerCap == 50

\* C7: solveKepler terminates for every mean anomaly, eccentricity and
\* tolerance: a call makes at most KeplerCap Newton iterations, and one that
\* has made them without converging has signalled the failure.
KeplerIterationsCapped ==
    /\ kep.iter <= KeplerCap
    /\ (kep.iter = KeplerCap /\ KeplerContinues(kep)) => kep.pc = "failed"

\* The eccentricity of the Earth's orbit, 0.0167, in thousandths.
EarthEccentricity == 17

\* C14: for mean anomaly 0 and the Earth's eccentricity, solveKepler (called
\* with a positive tolerance) makes at most 2 Newton iterations, the loop
\* condition is false once an iteration has been made, and the eccentric
\* anomaly it returns is 0.
KeplerZeroAnomaly ==
    (kep.m = 0 /\ kep.ex = EarthEccentricity /\ kep.err > 0) =>
        /\ kep.iter <= 2
        /\ kep.iter >= 1 => ~KeplerContinues(kep)
        /\ kep.pc = "done" => (kep.state = "finite" /\ kep.u0 = 0)

KeplerZeroReturned ==
    /\ kep.pc = "done"
    /\ kep.m = 0 /\ kep.ex = EarthEccentricity /\ kep.err = 1
    /\ kep.iter = 1 /\ kep.u0 = 0 /\ kep.delta = 0

----------------------------------------------------------------------------
(* Time and calendar                                                       *)

TicksPerDay == 14400

TicksPerMinute == TicksPerDay \div 1440

\* The engine epoch JD 2415020 (a noon), as a Julian Day number.
EpochJD == 2415020

\* A Julian date is kept as ticks since EpochJD.
DayOf(t) == t \div TicksPerDay

TickOfDay(t) == t % TicksPerDay

\* convertMdyToJulian(month, day + fraction, year): dayFrac is the fraction
\* of the day argument in ticks.
GregorianReformJD == 2299171

MdyIntermediate(month, year) == 12 * (year + 4800) + month - 3

MdyJulianDay(month, day, year) ==
    LET iv == MdyIntermediate(month, year)
    IN ((2 * (iv - (iv \div 12) * 12) + 7 + 365 * iv) \div 12)
           + day + (iv \div 48) - 32083

convertMdyToJulian(month, day, dayFrac, year) ==
    LET iv == MdyIntermediate(month, year)
        jd0 == MdyJulianDay(month, day, year)
        reformed == jd0 > GregorianReformJD \/ (jd0 = GregorianReformJD /\ dayFrac > 0)
        jd1 == IF reformed
               THEN jd0 + (iv \div 4800) - (iv \div 1200) + 38
               ELSE jd0
    IN (jd1 - EpochJD) * TicksPerDay + dayFrac - TicksPerDay \div 2

\* convertJulianToDate(jd): the civil date of a Julian date (Meeus), with the
\* time of day kept in ticks.
GregorianStartJD == 2299161

\* The conversion with the Gregorian correction left out (every Julian day
\* read in the Julian calendar).
JulianCalendarDate(t) ==
    LET adj == t + TicksPerDay \div 2
        bValue == EpochJD + DayOf(adj) + 1524
        cValue == (100 * bValue - 12210) \div 36525
        dValue == (36525 * cValue) \div 100
        eValue == (10000 * (bValue - dValue)) \div 306001
        month == IF eValue < 14 THEN eValue - 1 ELSE eValue - 13
    IN [year |-> IF month > 2 THEN cValue - 4716 ELSE cValue - 4715,
        month |-> month,
        day |-> bValue - dValue - ((306001 * eValue) \div 10000),
        tod |-> TickOfDay(adj)]

\* year, month and dayOfMonth of convertJulianToDate, from its integerJD
CivilOfJulianDay(integerJD) ==
    LET alpha == (100 * integerJD - 186721625) \div 3652425
        aValue == IF integerJD < GregorianStartJD
                  THEN integerJD
                  ELSE integerJD + 1 + alpha - (alpha \div 4)
        bValue == aValue + 1524
        cValue == (100 * bValue - 12210) \div 36525
        dValue == (36525 * cValue) \div 100
        eValue == (10000 * (bValue - dValue)) \div 306001
        dayOfMonth == bValue - dValue - ((306001 * eValue) \div 10000)
        month == IF eValue < 14 THEN eValue - 1 ELSE eValue - 13
        year == IF month > 2 THEN cValue - 4716 ELSE cValue - 4715
    IN [year |-> year, month |-> month, day |-> dayOfMonth]

convertJulianToDate(t) ==
    LET adj == t + TicksPerDay \div 2
        c == CivilOfJulianDay(EpochJD + DayOf(adj))
    IN [year |-> c.year, month |-> c.month, day |-> c.day, tod |-> TickOfDay(adj)]

\* new Date(year, month - 1, ...).getFullYear(): the Date constructor takes
\* a year of 0..99 for 1900 + year.
DateYear(year) == IF year \in 0..99 THEN 1900 + year ELSE year

\* A JavaScript Date: kind "date" with its civil fields, kind "invalid" for
\* Invalid Date, kind "now" for `new Date()` (tod then holds the wall clock).
DateAt(t) ==
    LET c == convertJulianToDate(t)
    IN [kind |-> "date", year |-> c.year, month |-> c.month, day |-> c.day,
        tod |-> c.tod]

InvalidDate == [kind |-> "invalid", year |-> 0, month |-> 0, day |-> 0, tod |-> 0]

NewDate(now) == [kind |-> "now", year |-> 0, month |-> 0, day |-> 0, tod |-> now]

\* Date.getTime of a civil date, in ticks since EpochJD.
TimeValue(date) == convertMdyToJulian(date.month, date.day, date.tod, date.year)

\* The weekday taken from the Julian day that begins at the preceding noon,
\* without the step back to the noon before the civil midnight.
WeekdayFromNoon(t) ==
    LET weekdayJD == EpochJD + DayOf(t) + 2
    IN weekdayJD - (weekdayJD \div 7) * 7

\* getWeekdayIndex(julianDate)
getWeekdayIndex(t) ==
    LET n == EpochJD + DayOf(t)
        weekdayJD == IF TickOfDay(t) < TicksPerDay \div 2 THEN n + 1 ELSE n + 2
    IN weekdayJD - (weekdayJD \div 7) * 7

----------------------------------------------------------------------------
(* The time converter, run on its own                                      *)

\* The civil (Gregorian) calendar the converter is compared with.
IsLeapYear(y) == (y % 4 = 0 /\ y % 100 # 0) \/ y % 400 = 0

DaysInMonth(y, m) ==
    IF m = 2 THEN (IF IsLeapYear(y) THEN 29 ELSE 28)
    ELSE IF m \in {4, 6, 9, 11} THEN 30 ELSE 31

DaysBeforeMonth(y, m) ==
    <<0, 31, 59, 90, 120, 151, 181, 212, 243, 273, 304, 334>>[m]
        + (IF m > 2 /\ IsLeapYear(y) THEN 1 ELSE 0)

\* Days since 0000-12-31, a Sunday: day 1 is Monday 0001-01-01.
CivilDayNumber(y, m, d) ==
    365 * (y - 1) + (y - 1) \div 4 - (y - 1) \div 100 + (y - 1) \div 400
        + DaysBeforeMonth(y, m) + d

\* The day of the week of a civil date, 0 = Sunday .. 6 = Saturday.
CivilWeekday(y, m, d) == CivilDayNumber(y, m, d) % 7

NextCivilDay(y, m, d) ==
    IF d < DaysInMonth(y, m) THEN <<y, m, d + 1>>
    ELSE IF m < 12 THEN <<y, m + 1, 1>>
    ELSE <<y + 1, 1, 1>>

SecondsPerTick == 86400 \div TicksPerDay

\* hours, minutes and seconds of convertJulianToDate are floors of doubles
\* derived from the fraction of the day.  A time of day that is a binary
\* fraction of the day (a multiple of 675 s) comes back exactly; any other
\* comes back as the whole second or, when the double fell short of it, as
\* the second before.
DateSeconds(tod) ==
    LET s == tod * SecondsPerTick
    IN IF s % 675 = 0 THEN {s} ELSE {s - 1, s}

\* Civil days the machine steps through from its first date.
MaxCalendarDays == 3

CalendarYears == {1800, 1899, 1900, 2000, 2100, 2199, 2200}

CalendarDays == {1, 28, 30}

\* midnight, one tick later, 00:22:30, the ticks around noon, the last tick
CalendarTimes == {0, 1, 225, TicksPerDay \div 2 - 1, TicksPerDay \div 2, TicksPerDay - 1}

CalendarDate(y, m, d, tod, steps, prevWd) ==
    [pc |-> "given", year |-> y, month |-> m, day |-> d, tod |-> tod,
     steps |-> steps, prevWd |-> prevWd, jd |-> 0, wd |-> 0,
     out |-> [year |-> 0, month |-> 0, day |-> 0, sec |-> 0]]

CalendarInit ==
    /\ \E y \in CalendarYears, m \in 1..12, d \in CalendarDays, tod \in CalendarTimes :
           /\ d <= DaysInMonth(y, m)
           /\ cal = CalendarDate(y, m, d, tod, 0, 0)
    /\ aFn = "none" /\ aArg = 0 /\ aVal = 0 /\ aPc = "done"
    /\ mode = "none"
    /\ inv = <<>>
    /\ scratch = <<>>
    /\ clock = 0
    /\ kep = IdleKepler

\* convertMdyToJulian(month, day + fraction, year), and the weekday of it
ToJulian ==
    /\ cal.pc = "given"
    /\ LET jd == convertMdyToJulian(cal.month, cal.day, cal.tod, cal.year)
       IN cal' = [cal EXCEPT !.pc = "julian", !.jd = jd, !.wd = getWeekdayIndex(jd)]
    /\ UNCHANGED <<angleVars, calcVars, keplerVars>>

\* convertJulianToDate(julianDate)
ToDate ==
    /\ cal.pc = "julian"
    /\ LET c == convertJulianToDate(cal.jd)
       IN \E sec \in DateSeconds(c.tod) :
              cal' = [cal EXCEPT !.pc = "date",
                                 !.out = [year |-> c.year, month |-> c.month,
                                          day |-> c.day, sec |-> sec]]
    /\ UNCHANGED <<angleVars, calcVars, keplerVars>>

\* the same for the next civil day, at any of the sampled times
NextDay ==
    /\ cal.pc = "date"
    /\ cal.steps < MaxCalendarDays
    /\ LET n == NextCivilDay(cal.year, cal.month, cal.day)
       IN \E tod \in CalendarTimes :
              cal' = CalendarDate(n[1], n[2], n[3], tod, cal.steps + 1, cal.wd)
    /\ UNCHANGED <<angleVars, calcVars, keplerVars>>

CalendarNext == ToJulian \/ ToDate \/ NextDay

SpecCalendar == CalendarInit /\ [][CalendarNext]_vars

----------------------------------------------------------------------------
(* Delta-T                                                                 *)

\* deltaTEmpiricalValues, in tenths of a second.
deltaTEmpiricalValues ==
    << 1240, 850, 620, 480, 370, 260, 160, 100, 90, 100, 110, 110, 120, 130,
       150, 160, 170, 170, 137, 125, 120, 75, 57, 71, 79, 16, -54, -59, -27,
       105, 212, 240, 243, 292, 332, 402, 505, 569, 657, 755 >>

\* One year in the units the decimal year is kept in: 12 * 1461, so that
\* (month - 1) / 12 and (day - 1) / 365.25 are both whole.
YearUnits == 17532

DecimalYear(date) ==
    date.year * YearUnits + (date.month - 1) * 1461 + (date.day - 1) * 48

DeltaTFirstYear == 1620

DeltaTLastYear == 2010

InDeltaTTable(dy) ==
    dy >= DeltaTFirstYear * YearUnits /\ dy < DeltaTLastYear * YearUnits

\* Days from JD 2378497 (the delta-T epoch) to EpochJD.
DeltaTEpochOffset == 36523

\* (jd - 2378497) / 36525 in thousandths of a century.
DeltaTCenturies(t) == ((DayOf(t) + DeltaTEpochOffset) * 1000) \div 36525

DeltaTMiddleYear == 948

\* The branch of computeDeltaT that a decimal year selects.
DeltaTBranch(dy) ==
    IF InDeltaTTable(dy) THEN "table"
    ELSE IF dy >= DeltaTLastYear * YearUnits THEN "after2010"
    ELSE IF dy >= DeltaTMiddleYear * YearUnits /\ dy < DeltaTFirstYear * YearUnits
    THEN "from948"
    ELSE "before948"

\* deltaTSeconds of computeDeltaT for the decimal year dy and the time tc in
\* thousandths of a century, in tenths of a second, with the branch taken
\* and the table position read (an entry outside the table is undefined and
\* makes the result NaN).
DeltaTOf(dy, tc) ==
    LET branch == DeltaTBranch(dy)
        decadeIndex == (dy - DeltaTFirstYear * YearUnits) \div (10 * YearUnits)
        frac == dy - (DeltaTFirstYear + decadeIndex * 10) * YearUnits
        inTable == {decadeIndex + 1, decadeIndex + 2} \subseteq DOMAIN deltaTEmpiricalValues
        lo == IF inTable THEN deltaTEmpiricalValues[decadeIndex + 1] ELSE 0
        hi == IF inTable THEN deltaTEmpiricalValues[decadeIndex + 2] ELSE 0
        square == (tc * tc) \div 1000
    IN [branch |-> branch,
        index |-> IF branch = "table" THEN decadeIndex ELSE -1,
        nan |-> branch = "table" /\ ~inTable,
        tenths |->
            CASE branch = "table" -> lo + ((hi - lo) * frac) \div (10 * YearUnits)
              [] branch = "after2010" -> (255 * square) \div 1000 - 390
              [] branch = "from948" -> (255 * square) \div 1000
              [] OTHER -> 13617 + (3200 * tc) \div 1000 + (443 * square) \div 1000]

\* deltaTSeconds of computeDeltaT, in tenths of a second.
DeltaTTenths(t) ==
    LET c == convertJulianToDate(t)
        dy == DecimalYear([c EXCEPT !.year = DateYear(@)])
    IN DeltaTOf(dy, DeltaTCenturies(t)).tenths

\* computeDeltaT: delta-T as a time offset, in ticks (the program returns
\* hours and every use divides them by 24).
computeDeltaT(t) == (DeltaTTenths(t) + 30) \div 60

----------------------------------------------------------------------------
(* computeDeltaT / PanchangUtils.dTime, run on their own                   *)

\* convertMdyToJulian(month, day, year) + 0.5: the Julian day number that
\* begins at the noon of the civil date.
MidnightJulianDay(month, day, year) ==
    LET iv == MdyIntermediate(month, year)
        jd0 == MdyJulianDay(month, day, year)
    IN IF jd0 > GregorianReformJD
       THEN jd0 + (iv \div 4800) - (iv \div 1200) + 38
       ELSE jd0

\* (julianDate - 2378497) / 36525 at the civil midnight that Julian day
\* number n follows, in thousandths of a century.
CenturiesOfMidnight(n) == ((n - EpochJD + DeltaTEpochOffset) * 1000 - 500) \div 36525

\* Civil dates delta-T is asked for: the first century, the years around
\* each limit of a branch, and years inside the table and after it.
DeltaTYears == {50, 947, 948, 1619, 1620, 1815, 2009, 2010, 2026}

DeltaTMonths == {1, 7, 12}

DeltaTDays == {1, 16, 31}

DeltaTInit ==
    /\ \E impl \in {"PanchangCalculator", "Panchang"},
          y \in DeltaTYears, m \in DeltaTMonths, d \in DeltaTDays :
           cal = [pc |-> "given", impl |-> impl, year |-> y, month |-> m, day |-> d,
                  seen |-> [year |-> 0, month |-> 0, day |-> 0],
                  branch |-> "none", index |-> -1, nan |-> FALSE, tenths |-> 0]
    /\ aFn = "none" /\ aArg = 0 /\ aVal = 0 /\ aPc = "done"
    /\ mode = "none"
    /\ inv = <<>>
    /\ scratch = <<>>
    /\ clock = 0
    /\ kep = IdleKepler

\* computeDeltaT(julianDate) reads the civil date back from the Date that
\* convertJulianToDate returns; dTime reads kyear, kmon and kday, which
\* calData has set.
EvalDeltaT ==
    /\ cal.pc = "given"
    /\ LET n == MidnightJulianDay(cal.month, cal.day, cal.year)
           c == CivilOfJulianDay(n)
           seen == IF cal.impl = "PanchangCalculator"
                   THEN [c EXCEPT !.year = DateYear(@)]
                   ELSE c
           r == DeltaTOf(DecimalYear(seen), CenturiesOfMidnight(n))
       IN cal' = [cal EXCEPT !.pc = "deltaT", !.seen = seen, !.branch = r.branch,
                             !.index = r.index, !.nan = r.nan, !.tenths = r.tenths]
    /\ UNCHANGED <<angleVars, calcVars, keplerVars>>

\* the same function asked for the next civil day
DeltaTNextDay ==
    /\ cal.pc = "deltaT"
    /\ cal.day < 31
    /\ cal' = [cal EXCEPT !.pc = "given", !.day = @ + 1]
    /\ UNCHANGED <<angleVars, calcVars, keplerVars>>

DeltaTNext == EvalDeltaT \/ DeltaTNextDay

SpecDeltaT == DeltaTInit /\ [][DeltaTNext]_vars

\* The decimal year of the civil date delta-T was asked for.
AskedYear == DecimalYear([year |-> cal.year, month |-> cal.month, day |-> cal.day])

\* C13: computeDeltaT (and dTime) takes exactly the branch that the decimal
\* civil year Y of its Julian date selects: the table for Y in [1620, 2010),
\* read at the positions floor((Y - 1620) / 10) and the next, both inside the
\* 40 entries; 25.5 t^2 - 39 for Y >= 2010; 25.5 t^2 for Y in [948, 1620);
\* 1361.7 + 320 t + 44.3 t^2 for Y < 948.
DeltaTBranchByYear ==
    cal.pc = "deltaT" =>
        /\ (AskedYear >= 1620 * YearUnits /\ AskedYear < 2010 * YearUnits) =>
               /\ cal.branch = "table"
               /\ cal.index = (AskedYear - 1620 * YearUnits) \div (10 * YearUnits)
               /\ cal.index \in 0..39 /\ cal.index + 1 \in 0..39
               /\ ~cal.nan
        /\ AskedYear >= 2010 * YearUnits => cal.branch = "after2010"
        /\ (AskedYear >= 948 * YearUnits /\ AskedYear < 1620 * YearUnits) =>
               cal.branch = "from948"
        /\ AskedYear < 948 * YearUnits => cal.branch = "before948"

----------------------------------------------------------------------------
(* Ephemeris: the secular (mean-motion) part of each series, with every    *)
(* normalisation the program applies.  The periodic terms, the nutation    *)
(* and the equation of centre are left out; a Julian date t is in ticks    *)
(* since EpochJD and every result is in angular units.                     *)

\* 270.4337361 + 13.176396544528099 * d  (moonMeanLongitude, unnormalized)
MoonEpochLongitude == 270434

MoonMeanLongitude(t) ==
    MoonEpochLongitude + 13176 * DayOf(t) + (19827 * DayOf(t)) \div 50000
        + (131764 * TickOfDay(t)) \div 144000

\* moonAngularVelocity = 13.176397 (units per day), the cosine terms dropped
MoonMeanVelocity == 13176

\* 279.696678 + 0.9856473354 * d  (sunMeanLongitude, unnormalized)
SunEpochLongitude == 279697

SunMeanLongitude(t) ==
    SunEpochLongitude + 985 * DayOf(t) + (32367 * DayOf(t)) \div 50000
        + (98565 * TickOfDay(t)) \div 1440000

\* perihelionCorrection = 101.220833 + 6189.03 * T / 3600
PerihelionEpoch == 101221

perihelionCorrection(t) == PerihelionEpoch + (1719 * DayOf(t)) \div 36525

\* sunMeanAnomaly = normalizeAngle(sunMeanLongitude - perihelionCorrection + 180)
sunMeanAnomaly(t) ==
    Mod360(SunMeanLongitude(t) - perihelionCorrection(t) + 180 * UnitsPerDeg)

\* The three sine terms added to the mean anomaly (about -0.002 degree in
\* the years the engine is run for).
AnomalyCorrection == -2

correctedAnomaly(t) == sunMeanAnomaly(t) + AnomalyCorrection

\* trueAnomalyDegrees = normalizeAngle(trueAnomaly * RAD_TO_DEG), the true
\* anomaly taken equal to the corrected anomaly.
trueAnomalyDegrees(t) == Mod360(correctedAnomaly(t))

\* aberrationCorrection = 20.496" * (1 - e^2) / r
AberrationCorrection == 6

\* The value computeSunLongitude stores in sunLongitudeForYoga.
SunLongitudeForYoga(t) ==
    SunMeanLongitude(t) + trueAnomalyDegrees(t) - sunMeanAnomaly(t)
        - AberrationCorrection

\* The value computeSunLongitude returns.
computeSunLongitude(t) == Mod360(SunLongitudeForYoga(t))

\* The value computeMoonLongitude stores in moonLongitudeForYoga.
MoonLongitudeForYoga(t) == MoonMeanLongitude(t)

\* The value computeMoonLongitude returns.
computeMoonLongitude(t) == Mod360(MoonLongitudeForYoga(t))

\* calculateAyanamsa: -(80861.27" + 5025.64" * T) / 3600
AyanamsaEpoch == 22461

calculateAyanamsa(t) == -(AyanamsaEpoch + (1396 * DayOf(t)) \div 36525)

\* computeNewMoonJulian: 2415020.75933 + 29.53058868 * lunationCount
NewMoonEpochTicks == 10934

computeNewMoonJulian(lunationCount) ==
    NewMoonEpochTicks + 425240 * lunationCount + (477 * lunationCount) \div 1000

\* lunationCount = floor(((jd - 2415020) / 365.25) * 12.3685)
LunationCount(t) ==
    (DayOf(t) * 24737 + (TickOfDay(t) * 24737) \div TicksPerDay) \div 730500

\* The phase anchors of the yoga value: 491143.07698973856 and
\* 36976.91240579201 degrees.
MoonYogaOffset == 491143077

SunYogaOffset == 36976912

YogaValue(moonForYoga, sunForYoga, ayan) ==
    (moonForYoga + ayan - MoonYogaOffset) + (sunForYoga + ayan - SunYogaOffset)

----------------------------------------------------------------------------
(* Table indices                                                           *)

TithiCount == 30

NakshatraCount == 27

KaranaCount == 11

YogaCount == 27

ZodiacCount == 12

WeekdayCount == 7

\* One nakshatra or yoga spans 80/6 degrees: index = floor(x * 6 / 80).
SpanIndex(x) == (x * 3) \div (40 * UnitsPerDeg)

\* The angle n spans of 80/6 degrees reach: n * 80 / 6 = 13333 n + n / 3 units.
SpanAngle(n) == 13333 * n + n \div 3

\* while (yogaIndex < 0) yogaIndex += 27; while (yogaIndex >= 27) yogaIndex -= 27;
\* The value the two loops end with: the first leaves a negative index in
\* 0..26, the second takes whole 27s off until the index is below 27.
\* (WrapYogaIndexAbove: the second loop with `> 27`, which leaves a positive
\* multiple of 27 at 27.)
WrapYogaIndexAbove(n) ==
    IF n > 0 /\ n % YogaCount = 0 THEN YogaCount ELSE n % YogaCount

WrapYogaIndex(n) == n % YogaCount

\* PanchangCalculator.calculate: the yoga index of a raw yoga value.
yogaIndexOf(raw) == WrapYogaIndex(SpanIndex(raw))

\* Panchang.calculate keeps n_yoga = zyoga * 6 / 80 unfloored, here as zyoga
\* itself (27 yogas are one Circle):
\* while (n_yoga < 0) n_yoga += 27; while (n_yoga > 27) n_yoga -= 27;
LegacyYogaTurn == Circle

\* The value the two loops end with: the first leaves a negative n_yoga in
\* [0, 27), the second takes whole 27s off only while n_yoga is above 27, so
\* a positive multiple of 27 ends at 27.
WrapLegacyYoga(q) ==
    IF q < 0 THEN q % LegacyYogaTurn
    ELSE IF q > LegacyYogaTurn
    THEN (IF q % LegacyYogaTurn = 0 THEN LegacyYogaTurn ELSE q % LegacyYogaTurn)
    ELSE q

\* Panchang.calculate: YOGAS[Math.floor(n_yoga)]
legacyYogaIndexOf(zyoga) == SpanIndex(WrapLegacyYoga(zyoga))

\* Moon minus Sun, with 360 added to the Moon when it is behind the Sun.
Elongation(moonLon, sunLon) ==
    IF moonLon < sunLon THEN moonLon + Circle - sunLon ELSE moonLon - sunLon

\* (tithiIndexUnwrapped: the tithi index without `+= 360` for a Moon behind
\* the Sun.)
tithiIndexUnwrapped(moonLon, sunLon) == (moonLon - sunLon) \div (12 * UnitsPerDeg)

tithiIndexOf(moonLon, sunLon) == Elongation(moonLon, sunLon) \div (12 * UnitsPerDeg)

karanaRawIndexOf(moonLon, sunLon) == Elongation(moonLon, sunLon) \div (6 * UnitsPerDeg)

\* The karana mapping with its tail starting one raw index late (it
\* differs from karanaIndexOf at raw 57 only).
KaranaIndexLateTail(raw) ==
    IF raw = 0 THEN 10
    ELSE IF raw > 57 THEN raw - 50
    ELSE raw - 1 - ((raw - 1) \div 7) * 7

\* karanaIndex from karanaRawIndex (n_karana from nk in Panchang.calculate)
karanaIndexOf(raw) ==
    IF raw = 0 THEN 10
    ELSE IF raw >= 57 THEN raw - 50
    ELSE raw - 1 - ((raw - 1) \div 7) * 7

nakshatraIndexOf(moonLon, ayan) == SpanIndex(Mod360(moonLon + ayan))

zodiacIndexOf(moonLon, ayan) == Abs(Mod360(moonLon + ayan)) \div (30 * UnitsPerDeg)

----------------------------------------------------------------------------
(* Requests                                                                *)

\* A request is the Date handed to calculate: its civil fields in the time
\* zone of the host (tz, minutes east of Greenwich), or an Invalid Date.
Request(y, m, d, minute, tz) ==
    [valid |-> TRUE, year |-> y, month |-> m, day |-> d, minute |-> minute, tz |-> tz]

InvalidRequest ==
    [valid |-> FALSE, year |-> 0, month |-> 0, day |-> 0, minute |-> 0, tz |-> 0]

\* Minutes between two instants of the sampling grid.
GridStep == 360

GridMinutes == {k * GridStep : k \in 0..((1439) \div GridStep)}

\* Two lunations around the epoch of the yoga phase anchors.
GridDays ==
    {<<2001, 12, d>> : d \in 10..31} \cup {<<2002, 1, d>> : d \in 1..31}
        \cup {<<2002, 2, d>> : d \in 1..7}

GridRequests == {Request(g[1], g[2], g[3], minute, 0) : g \in GridDays, minute \in GridMinutes}

\* Single instants: the perihelion passage of 2002, the perihelion passage
\* of 1938 (a yoga boundary falls into it), an instant whose yoga value is
\* a whole number of turns, instants after 2010, and a host east of Greenwich.
ChosenRequests ==
    { Request(2002, 1, 3, 763, 0),
      Request(1938, 1, 3, 600, 0),
      Request(1938, 1, 2, 0, 0),
      Request(2002, 10, 7, 1262, 0),
      Request(2012, 11, 5, 600, 0),
      Request(2026, 11, 5, 600, 0),
      Request(2002, 1, 13, 900, 345),
      Request(2002, 1, 14, 30, 345) }

Requests == GridRequests \cup ChosenRequests \cup {InvalidRequest}

Implementations == {"PanchangCalculator", "Panchang"}

\* calculate invocations
MaxCalls == 3

Calls == 1..MaxCalls

----------------------------------------------------------------------------
(* Scratch cells                                                           *)

\* A cell holds a number (nan: it is NaN) and who wrote it: an invocation,
\* 0 for the initialiser of a module-level variable, -1 for a context field
\* not yet assigned.
Cell(v, nan, by) == [v |-> v, nan |-> nan, by |-> by]

ScratchFields ==
    {"deltaT", "ayanamsa", "moonLongitudeForYoga", "sunLongitudeForYoga",
     "moonAngularVelocity"}

\* const calcContext: CalculationContext = {};
EmptyContext == [f \in ScratchFields |-> Cell(0, FALSE, -1)]

\* export let LmoonYoga = 0, LsunYoga = 0, dt = 0, ayanamsa = 0, skor = 0
ModuleVariables == [f \in ScratchFields |-> Cell(0, FALSE, 0)]

\* Where an invocation keeps its scratch values.
ScratchOf(i) == IF inv[i].impl = "PanchangCalculator" THEN i ELSE 0

ReadCell(i, f) == scratch[ScratchOf(i)][f]

\* `calcContext.x ?? dflt`
ReadValue(i, f, dflt) ==
    LET c == ReadCell(i, f) IN IF c.by = -1 THEN dflt ELSE c.v

ReadNaN(i, f) == ReadCell(i, f).nan

\* A read that returns what another invocation wrote.
Foreign(i, f) == ReadCell(i, f).by \notin {-1, 0, i}

\* scratch after invocation i assigns the cells of ws (field -> [v, nan])
Assign(i, ws) ==
    [scratch EXCEPT ![ScratchOf(i)] =
        [f \in ScratchFields |->
            IF f \in DOMAIN ws THEN Cell(ws[f].v, ws[f].nan, i) ELSE @[f]]]

\* The invocation c of i after it read the cells of fields, the cells of ws
\* having just been assigned by it: it notes the cells it read that it has
\* not written itself (a `??` default, an initialiser or an earlier call's
\* value is what such a read returns).
\* Of delta-T and the ayanamsa it also notes the values it read.
Reading(i, c, fields, ws) ==
    [c EXCEPT !.unwritten =
        @ \cup {f \in fields : f \notin DOMAIN ws /\ ReadCell(i, f).by # i},
              !.used = [f \in DOMAIN @ |->
                  IF f \in fields
                  THEN @[f] \cup {[v |-> ReadCell(i, f).v, nan |-> ReadCell(i, f).nan]}
                  ELSE @[f]]]

Num(v) == [v |-> v, nan |-> FALSE]

NaN == [v |-> 0, nan |-> TRUE]

----------------------------------------------------------------------------
(* One calculate invocation                                                *)

Elements == {"yoga", "nakshatra", "tithi", "karana"}

IndexNames == {"weekday", "yoga", "nakshatra", "tithi", "karanaRaw", "karana", "zodiac"}

UnsetDate == [kind |-> "unset", year |-> 0, month |-> 0, day |-> 0, tod |-> 0]

\* The locals of a boundary solver: the element it solves for, the boundary
\* (0 lower, 1 upper), the trial Julian date and whether it is still a finite
\* date of the modelled span, the iterations made for this boundary and the
\* trial dates they started from, the period index and the period length.
\* Of the boundary being solved it also keeps the trial date of the first
\* pass through the loop and the passes made (each evaluates the positions).
NoSolver ==
    [kind |-> "none", bnd |-> 0, cur |-> 0, state |-> "finite", steps |-> 0,
     seen |-> {}, idx |-> 0, len |-> 0, first |-> 0, evals |-> 0,
     err |-> 0, at |-> 0]            \* the error of the last step, and where

\* How a boundary was obtained: from the new-moon estimate or from the loop,
\* the Julian date reported, the passes of the loop and the trial date of the
\* first and of the last, and whether the last error was within the tolerance.
NoBoundary ==
    [via |-> "none", jd |-> 0, state |-> "finite", evals |-> 0, first |-> 0,
     last |-> 0, within |-> FALSE, target |-> 0]

\* The fields of a Panchang object that calculate assigns.
PanchangFields == {"day", "tithi", "nakshatra", "karana", "yoga", "ayanamsa", "raasi"}

Call(impl, req, pc) ==
    [impl |-> impl, req |-> req, pc |-> pc,
     cb |-> FALSE,                   \* a callback was passed
     cbCalls |-> 0,                  \* the times it was invoked
     cbSaw |-> {},                   \* the fields assigned when it was invoked
     assigned |-> {},                \* the fields this invocation has assigned
     found |-> [e \in {"yoga", "nakshatra", "tithi", "karana"} |->
                   [b \in {0, 1} |-> NoBoundary]],
     rates |-> {},                   \* where the velocities of the steps came from
     divisors |-> {},                \* the rates the steps divided by
     unwritten |-> {},               \* cells read that this invocation had not written
     used |-> [f \in {"deltaT", "ayanamsa"} |-> {}],      \* the values read of them
     ayanamsaOut |-> [v |-> 0, nan |-> FALSE],            \* the ayanamsa reported
     rows |-> [t \in {"primary", "secondary"} |-> -1],    \* highest table row read
     rowsWritten |-> [t \in {"primary", "secondary"} |-> {}],
     nan |-> FALSE,                  \* the locals derived from the Date are NaN
     jd |-> 0,                       \* correctedJulianDate
     moonLon |-> 0, sunLon |-> 0,    \* moonLongitude, sunLongitude
     raw |-> 0,                      \* rawYogaValue
     index |-> [n \in IndexNames |-> 0],
     computed |-> {},                \* the indices computed so far
     sol |-> NoSolver,
     seg |-> [e \in Elements |-> [start |-> UnsetDate, end |-> UnsetDate]],
     foreign |-> FALSE,              \* has read a cell another invocation wrote
     error |-> "none",               \* the error thrown, if any
     warnings |-> {}]                \* the warnings reported

IdleCall == Call("PanchangCalculator", InvalidRequest, "idle")

\* An invocation takes a step when it has been called and, unless the
\* invocations are interleaved, every earlier one has returned.
Runs(i) ==
    /\ inv[i].pc # "idle"
    /\ mode = "interleaved" \/ \A j \in Calls : j < i => inv[j].pc \in {"idle", "done"}

TzTicks(i) == inv[i].req.tz * TicksPerMinute

\* What one evaluation of computeMoonLongitude at t leaves in the scratch
\* cells.  PanchangUtils.moon assigns LmoonYoga only: nothing assigns skor.
\* (MoonWritesLongitudeOnly: an evaluation that stores no velocity at all.)
MoonWritesLongitudeOnly(i, t, nan) ==
    ("moonLongitudeForYoga" :> (IF nan THEN NaN ELSE Num(MoonLongitudeForYoga(t))))

MoonWrites(i, t, nan) ==
    IF inv[i].impl = "PanchangCalculator"
    THEN ("moonLongitudeForYoga" :> (IF nan THEN NaN ELSE Num(MoonLongitudeForYoga(t))))
         @@ ("moonAngularVelocity" :> (IF nan THEN NaN ELSE Num(MoonMeanVelocity)))
    ELSE ("moonLongitudeForYoga" :> (IF nan THEN NaN ELSE Num(MoonLongitudeForYoga(t))))

SunWrites(i, t, nan) ==
    ("sunLongitudeForYoga" :> (IF nan THEN NaN ELSE Num(SunLongitudeForYoga(t))))

\* The two tables of perturbation terms of the Moon.
MoonTables == {"primary", "secondary"}

\* Rows of CORR_MOON and CORR_MOON2 (PanchangCalculator) and of corrMoonData
\* and corrMoon2Data, from which PanchangUtils builds corrMoon and corrMoon2.
CorrMoonRows == 93

CorrMoon2Rows == 27

CorrMoonDataRows == 93

CorrMoon2DataRows == 27

\* PanchangUtils.moon: for (let i = 0; i < 93; i++), for (let i = 0; i < 27; i++)
LegacyPrimaryBound == 93

LegacySecondaryBound == 27

TableRows(impl, t) ==
    IF impl = "PanchangCalculator"
    THEN (IF t = "primary" THEN CorrMoonRows ELSE CorrMoon2Rows)
    ELSE (IF t = "primary" THEN CorrMoonDataRows ELSE CorrMoon2DataRows)

\* The loops with `i <= bound`.
LoopBoundInclusive(impl, t) ==
    IF impl = "PanchangCalculator" THEN TableRows(impl, t) + 1
    ELSE IF t = "primary" THEN LegacyPrimaryBound + 1 ELSE LegacySecondaryBound + 1

\* The rows a loop over table t visits are 0 .. LoopBound - 1:
\* i < CORR_MOON.length in computeMoonLongitude, i < 93 or 27 in moon.
LoopBound(impl, t) ==
    IF impl = "PanchangCalculator" THEN TableRows(impl, t)
    ELSE IF t = "primary" THEN LegacyPrimaryBound ELSE LegacySecondaryBound

\* The rows a pass of the loops assigns to: the body reads the fields of
\* row i into `argument` and the running sum and assigns no field of it.
RowsWritten(impl, t) == {}

\* The invocation after one evaluation of the Moon's longitude: the highest
\* row of each table it has read, and the rows it has written.
MoonEvaluated(c) ==
    [c EXCEPT !.rows = [t \in MoonTables |-> LoopBound(c.impl, t) - 1],
              !.rowsWritten = [t \in MoonTables |-> @[t] \cup RowsWritten(c.impl, t)]]

SetIndex(c, name, v) ==
    [c EXCEPT !.index = [@ EXCEPT ![name] = v], !.computed = @ \cup {name}]

\* this.<field>.name = ... (and start, end) of Panchang.calculate;
\* PanchangCalculator.calculate returns a new object instead.
SetFields(c, fields) ==
    IF c.impl = "Panchang" THEN [c EXCEPT !.assigned = @ \cup fields] ELSE c

\* calculate, up to the ayanamsa: the Julian dates, the weekday, delta-T and
\* the ayanamsa.  No argument is checked; every number derived from an
\* Invalid Date is NaN.
Calculate(i) ==
    /\ Runs(i)
    /\ inv[i].pc = "called"
    /\ LET r == inv[i].req
           frac == r.minute * TicksPerMinute
           localJulianDate == convertMdyToJulian(r.month, r.day, frac, r.year)
           startOfDayJulian == convertMdyToJulian(r.month, r.day, 0, r.year)
           julianDateUT == startOfDayJulian + frac - TzTicks(i)
           deltaT == computeDeltaT(julianDateUT)
           correctedJulianDate == julianDateUT + deltaT
       IN IF r.valid
          THEN /\ inv' = [inv EXCEPT ![i] =
                     [SetFields(SetIndex(@, "weekday", getWeekdayIndex(localJulianDate)),
                                {"day"})
                        EXCEPT !.pc = "moon", !.jd = correctedJulianDate]]
               /\ scratch' = Assign(i, ("deltaT" :> Num(deltaT)) @@
                     ("ayanamsa" :> Num(calculateAyanamsa(correctedJulianDate))))
          ELSE /\ inv' = [inv EXCEPT ![i] =
                     [SetFields(@, {"day"}) EXCEPT !.pc = "moon", !.nan = TRUE]]
               /\ scratch' = Assign(i, ("deltaT" :> NaN) @@ ("ayanamsa" :> NaN))
    /\ clock' = clock + 1
    /\ UNCHANGED <<mode, angleVars, keplerVars, calendarVars>>

\* const moonLongitude = computeMoonLongitude(correctedJulianDate, calcContext)
EvalMoon(i) ==
    /\ Runs(i)
    /\ inv[i].pc = "moon"
    /\ inv' = [inv EXCEPT ![i] =
           [MoonEvaluated(@) EXCEPT !.pc = "sun",
                     !.moonLon = IF inv[i].nan THEN 0 ELSE computeMoonLongitude(inv[i].jd)]]
    /\ scratch' = Assign(i, MoonWrites(i, inv[i].jd, inv[i].nan))
    /\ UNCHANGED <<mode, clock, angleVars, keplerVars, calendarVars>>

\* const sunLongitude = computeSunLongitude(correctedJulianDate, calcContext)
EvalSun(i) ==
    /\ Runs(i)
    /\ inv[i].pc = "sun"
    /\ inv' = [inv EXCEPT ![i] =
           [@ EXCEPT !.pc = "yoga",
                     !.sunLon = IF inv[i].nan THEN 0 ELSE computeSunLongitude(inv[i].jd)]]
    /\ scratch' = Assign(i, SunWrites(i, inv[i].jd, inv[i].nan))
    /\ UNCHANGED <<mode, clock, angleVars, keplerVars, calendarVars>>

----------------------------------------------------------------------------
(* The boundary solvers                                                    *)

\* Math.abs(angleDifference) > 0.001
Tolerance == 1

\* ... / ((moonAngularVelocity ?? 1) + 1.0145616633), in units per day
YogaRateOffset == 1015

\* ... / ((moonAngularVelocity ?? 1) - 1)
TithiRateOffset == 1000

\* Iterations of one boundary's while loop that are followed.
MaxSeek == 8

\* Trial dates are followed up to this many days from EpochJD.
HorizonDays == 60000

\* if (d > 180) d -= 360;  if (d < -180) d += 360;
Wrap180(e) ==
    LET a == IF e > 180 * UnitsPerDeg THEN e - Circle ELSE e
    IN IF a < -180 * UnitsPerDeg THEN a + Circle ELSE a

\* angleDifference / rate days, in ticks (rate # 0), truncated
StepTicks(e, rate) ==
    LET m == Abs(e)
        r == Abs(rate)
        mag == (m \div r) * TicksPerDay + ((m % r) * TicksPerDay) \div r
    IN IF (e >= 0) = (rate > 0) THEN mag ELSE -mag

\* The trial date after the step, and whether it is still followed.
StepFollowed(cur, e, rate) ==
    /\ Abs(e) \div Abs(rate) <= HorizonDays
    /\ Abs(DayOf(cur + StepTicks(e, rate))) <= HorizonDays

IsTithiKind(kind) == kind \in {"tithi", "karana"}

\* The boundary a solver is after: yogaBoundaries[i], the nakshatra's
\* targetAngle, the tithi's or karana's targetAspect.
Target(s) ==
    IF s.kind = "yoga" THEN SpanAngle(s.idx + s.bnd)
    ELSE IF s.kind = "nakshatra" THEN Mod360(SpanAngle(s.idx + s.bnd))
    ELSE s.len * (s.idx + s.bnd)

\* angleDifference at the trial date c, with the ayanamsa ay of the scratch
SeekError(s, c, ay) ==
    IF s.kind = "yoga"
    THEN Target(s) - YogaValue(MoonLongitudeForYoga(c), SunLongitudeForYoga(c), ay)
    ELSE IF s.kind = "nakshatra"
    THEN Wrap180(Target(s) - Mod360(computeMoonLongitude(c) + ay))
    ELSE Wrap180(Mod360(computeSunLongitude(c) + Target(s)) - computeMoonLongitude(c))

\* The divisor of the step, from the velocity read from the scratch.
SeekRate(s, velocity) ==
    IF s.kind = "yoga" THEN velocity + YogaRateOffset
    ELSE IF s.kind = "nakshatra" THEN velocity
    ELSE velocity - TithiRateOffset

\* The scratch cells the error of one pass is computed from.
SeekReads(s) ==
    IF s.kind = "yoga" THEN {"moonLongitudeForYoga", "sunLongitudeForYoga", "ayanamsa"}
    ELSE IF s.kind = "nakshatra" THEN {"ayanamsa"}
    ELSE {}

\* (SeekWritesAyanamsa: a pass that also stores the ayanamsa of its trial date.)
SeekWritesAyanamsa(i, s, nan) ==
    ("ayanamsa" :> (IF nan THEN NaN ELSE Num(calculateAyanamsa(s.cur))))
    @@ SunWrites(i, s.cur, nan) @@ MoonWrites(i, s.cur, nan)

\* What one loop iteration's position evaluations leave in the scratch.
SeekWrites(i, s, nan) ==
    IF s.kind = "nakshatra" THEN MoonWrites(i, s.cur, nan)
    ELSE SunWrites(i, s.cur, nan) @@ MoonWrites(i, s.cur, nan)

\* The tithi and karana boundaries for which only the aspect 0 is taken from
\* the new-moon estimate.
UsesNewMoonAtZero(s) == IsTithiKind(s.kind) /\ Target(s) = 0

\* if (targetAspect === 0) ... if (targetAspect === 360) ...
UsesNewMoon(s) == IsTithiKind(s.kind) /\ Target(s) \in {0, Circle}

\* The velocity the step divides by: what the scratch holds once the pass
\* has evaluated the positions at the trial date (`?? 1` for a context field
\* never assigned).
VelocityRead(i, s) ==
    LET ws == SeekWrites(i, s, FALSE)
    IN IF "moonAngularVelocity" \in DOMAIN ws THEN ws["moonAngularVelocity"].v
       ELSE ReadValue(i, "moonAngularVelocity", UnitsPerDeg)

\* Where that velocity comes from: the Moon evaluation of this pass, the
\* `?? 1` default, the initialiser of the variable, or an earlier write.
VelocitySource(i, s) ==
    LET cell == ReadCell(i, "moonAngularVelocity")
    IN IF "moonAngularVelocity" \in DOMAIN SeekWrites(i, s, FALSE) THEN "evaluation"
       ELSE IF cell.by = -1 THEN "default"
       ELSE IF cell.by = 0 THEN "initial"
       ELSE "stale"

\* convertJulianToDate(currentJulianDate + (timezoneOffset - deltaT) / 24)
BoundaryDate(i, cur, finite) ==
    IF ~finite \/ ReadNaN(i, "deltaT") THEN InvalidDate
    ELSE DateAt(cur + TzTicks(i) - ReadValue(i, "deltaT", 0))

\* The trial date of the first pass through the loop of the boundary.
FirstTrial(s) == IF s.evals = 0 THEN s.cur ELSE s.first

\* The boundary the loop ends with at the trial date s.cur, after one more
\* pass; within: the error of that pass was a number within the tolerance.
Iterated(s, state, within) ==
    [via |-> "iteration", jd |-> s.cur, state |-> state, evals |-> s.evals + 1,
     first |-> FirstTrial(s), last |-> s.cur, within |-> within,
     target |-> Target(s)]

\* The boundary taken from computeNewMoonJulian.
Estimated(s, jd) ==
    [via |-> "estimator", jd |-> jd, state |-> "finite", evals |-> s.evals,
     first |-> 0, last |-> 0, within |-> FALSE,
     target |-> Target(s)]

\* The solver with `let currentJulianDate = julianDate` inside the loop over
\* the two boundaries: the upper boundary starts again from the date passed.
StoredRestarting(i, c, b, next) ==
    LET s == c.sol
        date == BoundaryDate(i, b.jd, b.state = "finite")
        kept == [Reading(i, c, {"deltaT"}, <<>>) EXCEPT !.found = [@ EXCEPT ![s.kind] = [@ EXCEPT ![s.bnd] = b]],
                          !.foreign = @ \/ Foreign(i, "deltaT")]
    IN IF s.bnd = 0
       THEN [kept EXCEPT !.seg = [@ EXCEPT ![s.kind] = [@ EXCEPT !.start = date]],
                         !.sol = [s EXCEPT !.bnd = 1, !.cur = c.jd,
                                           !.state = IF c.nan THEN "nonfinite" ELSE "finite",
                                           !.steps = 0, !.seen = {},
                                           !.first = 0, !.evals = 0]]
       ELSE [kept EXCEPT !.seg = [@ EXCEPT ![s.kind] = [@ EXCEPT !.end = date]],
                         !.sol = NoSolver, !.pc = next]

\* The invocation after the boundary b was obtained: the start, and on to
\* the upper boundary from the same trial date, or the end, and on to next.
Stored(i, c, b, next) ==
    LET s == c.sol
        date == BoundaryDate(i, b.jd, b.state = "finite")
        kept == [Reading(i, c, {"deltaT"}, <<>>) EXCEPT !.found = [@ EXCEPT ![s.kind] = [@ EXCEPT ![s.bnd] = b]],
                          !.foreign = @ \/ Foreign(i, "deltaT")]
    IN IF s.bnd = 0
       THEN [kept EXCEPT !.seg = [@ EXCEPT ![s.kind] = [@ EXCEPT !.start = date]],
                         !.sol = [s EXCEPT !.bnd = 1, !.cur = b.jd, !.state = b.state,
                                           !.steps = 0, !.seen = {},
                                           !.first = 0, !.evals = 0]]
       ELSE [kept EXCEPT !.seg = [@ EXCEPT ![s.kind] = [@ EXCEPT !.end = date]],
                         !.sol = NoSolver, !.pc = next]

\* One pass through the body of a boundary's loop.
Seek(i, next) ==
    LET called == inv[i]
        s == called.sol
        \* every pass of a loop evaluates the Moon's longitude
        \* and then reads the accumulators and the ayanamsa its error needs
        c == IF UsesNewMoon(s) THEN called
             ELSE Reading(i, MoonEvaluated(called), SeekReads(s), SeekWrites(i, s, FALSE))
        ayNaN == s.kind # "tithi" /\ s.kind # "karana" /\ ReadNaN(i, "ayanamsa")
        ay == ReadValue(i, "ayanamsa", 0)
        usesAy == ~IsTithiKind(s.kind)
        e == SeekError(s, s.cur, ay)
        velocity == VelocityRead(i, s)
    IN
    \* a trial date that is NaN or infinite: every position is NaN, the
    \* test Math.abs(NaN) > 0.001 is false and the loop ends
    \/ /\ s.state = "nonfinite"
       /\ ~UsesNewMoon(s)
       /\ scratch' = Assign(i, SeekWrites(i, s, TRUE))
       /\ inv' = [inv EXCEPT ![i] = Stored(i, c, Iterated(s, "nonfinite", FALSE), next)]
    \* a trial date beyond the followed span: the series turn NaN there and
    \* the loop ends ...
    \/ /\ s.state = "far"
       /\ ~UsesNewMoon(s)
       /\ scratch' = Assign(i, SeekWrites(i, s, TRUE))
       /\ inv' = [inv EXCEPT ![i] = Stored(i, c, Iterated(s, "nonfinite", FALSE), next)]
    \* ... or an evaluation at it does not return
    \/ /\ s.state = "far"
       /\ ~UsesNewMoon(s)
       /\ inv' = [inv EXCEPT ![i] = [called EXCEPT !.pc = "hung"]]
       /\ UNCHANGED scratch
    \* targetAspect 0 or 360: the new-moon estimate replaces the loop,
    \* whatever the trial date was
    \/ /\ UsesNewMoon(s)
       /\ LET k == LunationCount(c.jd) + (IF Target(s) = 0 THEN 0 ELSE 1)
          IN inv' = [inv EXCEPT ![i] =
                 Stored(i, c, Estimated(s, computeNewMoonJulian(k)), next)]
       /\ UNCHANGED scratch
    \* the error is within the tolerance (or NaN): the boundary is found
    \/ /\ s.state = "finite"
       /\ ~UsesNewMoon(s)
       /\ ayNaN \/ Abs(e) <= Tolerance
       /\ scratch' = Assign(i, SeekWrites(i, s, FALSE))
       /\ inv' = [inv EXCEPT ![i] =
              [Stored(i, c, Iterated(s, "finite", ~ayNaN), next)
                 EXCEPT !.foreign = @ \/ c.foreign \/ (usesAy /\ Foreign(i, "ayanamsa"))]]
    \* otherwise the trial date moves by error / rate
    \/ /\ s.state = "finite"
       /\ ~UsesNewMoon(s)
       /\ ~ayNaN
       /\ Abs(e) > Tolerance
       /\ scratch' = Assign(i, SeekWrites(i, s, FALSE))
       /\ LET rate == SeekRate(s, velocity)
              frn == c.foreign \/ (usesAy /\ Foreign(i, "ayanamsa"))
                         \/ Foreign(i, "moonAngularVelocity")
              after(cur, state) ==
                  [Reading(i, c, {"moonAngularVelocity"}, SeekWrites(i, s, FALSE))
                     EXCEPT !.sol = [s EXCEPT !.cur = cur, !.state = state,
                                              !.steps = @ + 1,
                                              !.seen = @ \cup {s.cur},
                                              !.first = FirstTrial(s),
                                              !.evals = @ + 1,
                                              !.err = e, !.at = s.cur],
                            !.rates = @ \cup {VelocitySource(i, s)},
                            !.divisors = @ \cup {rate},
                            !.foreign = frn]
          IN inv' = [inv EXCEPT ![i] =
                 IF s.steps >= MaxSeek THEN [c EXCEPT !.pc = "cut"]
                 ELSE IF rate = 0 THEN after(s.cur, "nonfinite")
                 ELSE IF StepFollowed(s.cur, e, rate)
                      THEN after(s.cur + StepTicks(e, rate), "finite")
                      ELSE after(s.cur, "far")]

YogaSeek(i) ==
    /\ Runs(i)
    /\ inv[i].pc = "yogaSeek"
    /\ Seek(i, "nakshatra")
    /\ UNCHANGED <<mode, clock, angleVars, keplerVars, calendarVars>>

NakshatraSeek(i) ==
    /\ Runs(i)
    /\ inv[i].pc = "nakshatraSeek"
    /\ Seek(i, "tithi")
    /\ UNCHANGED <<mode, clock, angleVars, keplerVars, calendarVars>>

\* computeTithiSegment serves the tithi (12 degrees) and the karana (6 degrees)
TithiSeek(i) ==
    /\ Runs(i)
    /\ inv[i].pc \in {"tithiSeek", "karanaSeek"}
    /\ Seek(i, IF inv[i].pc = "tithiSeek" THEN "karana" ELSE "assemble")
    /\ UNCHANGED <<mode, clock, angleVars, keplerVars, calendarVars>>

----------------------------------------------------------------------------
(* calculate, from the yoga on                                             *)

\* let currentJulianDate = julianDate;
\* const timeSegment = { start: new Date(), end: new Date() };
Entered(c, kind, idx, len) ==
    [c EXCEPT !.sol = [NoSolver EXCEPT !.kind = kind, !.cur = c.jd, !.idx = idx,
                                       !.len = len,
                                       !.state = IF c.nan THEN "nonfinite" ELSE "finite"],
              !.seg = [@ EXCEPT ![kind] = [start |-> NewDate(clock), end |-> NewDate(clock)]]]

\* The raw yoga value and the yoga index, then into computeYogaSegment.
YogaBegin(i) ==
    /\ Runs(i)
    /\ inv[i].pc = "yoga"
    /\ LET c == Reading(i, inv[i],
                        {"moonLongitudeForYoga", "sunLongitudeForYoga", "ayanamsa"}, <<>>)
           raw == YogaValue(ReadValue(i, "moonLongitudeForYoga", 0),
                            ReadValue(i, "sunLongitudeForYoga", 0),
                            ReadValue(i, "ayanamsa", 0))
           rawNaN == c.nan \/ ReadNaN(i, "moonLongitudeForYoga")
                        \/ ReadNaN(i, "sunLongitudeForYoga") \/ ReadNaN(i, "ayanamsa")
           frn == c.foreign \/ Foreign(i, "moonLongitudeForYoga")
                     \/ Foreign(i, "sunLongitudeForYoga") \/ Foreign(i, "ayanamsa")
           idx == IF c.impl = "PanchangCalculator"
                  THEN yogaIndexOf(raw) ELSE legacyYogaIndexOf(raw)
       IN inv' = [inv EXCEPT ![i] =
              IF rawNaN
              THEN [Entered(c, "yoga", 0, 0)
                      EXCEPT !.pc = "yogaSeek", !.foreign = frn,
                             !.sol = [@ EXCEPT !.state = "nonfinite"]]
              ELSE [Entered(SetIndex(c, "yoga", idx), "yoga", SpanIndex(raw), 0)
                      EXCEPT !.pc = "yogaSeek", !.raw = raw, !.foreign = frn]]
    /\ UNCHANGED <<mode, scratch, clock, angleVars, keplerVars, calendarVars>>

\* A loop `for (index = n; index < n + 2; index++)` over a NaN index runs no
\* pass: the segment keeps the two `new Date()` it was created with.
Skipped(c, kind, next) ==
    [c EXCEPT !.seg = [@ EXCEPT ![kind] = [start |-> NewDate(clock), end |-> NewDate(clock)]],
              !.pc = next]

NakshatraBegin(i) ==
    /\ Runs(i)
    /\ inv[i].pc = "nakshatra"
    /\ LET c == Reading(i, inv[i], {"ayanamsa"}, <<>>)
           nan == c.nan \/ ReadNaN(i, "ayanamsa")
           idx == nakshatraIndexOf(c.moonLon, ReadValue(i, "ayanamsa", 0))
           frn == c.foreign \/ Foreign(i, "ayanamsa")
       IN inv' = [inv EXCEPT ![i] =
              IF nan
              THEN [Skipped(c, "nakshatra", "tithi") EXCEPT !.foreign = frn]
              ELSE [Entered(SetIndex(c, "nakshatra", idx), "nakshatra", idx, 0)
                      EXCEPT !.pc = "nakshatraSeek", !.foreign = frn]]
    /\ UNCHANGED <<mode, scratch, clock, angleVars, keplerVars, calendarVars>>

TithiBegin(i) ==
    /\ Runs(i)
    /\ inv[i].pc = "tithi"
    /\ LET c == inv[i]
           idx == tithiIndexOf(c.moonLon, c.sunLon)
       IN inv' = [inv EXCEPT ![i] =
              IF c.nan
              THEN Skipped(c, "tithi", "karana")
              ELSE [Entered(SetIndex(c, "tithi", idx), "tithi", idx, 12 * UnitsPerDeg)
                      EXCEPT !.pc = "tithiSeek"]]
    /\ UNCHANGED <<mode, scratch, clock, angleVars, keplerVars, calendarVars>>

KaranaBegin(i) ==
    /\ Runs(i)
    /\ inv[i].pc = "karana"
    /\ LET c == inv[i]
           raw == karanaRawIndexOf(c.moonLon, c.sunLon)
           withIdx == SetIndex(SetIndex(c, "karanaRaw", raw), "karana", karanaIndexOf(raw))
       IN inv' = [inv EXCEPT ![i] =
              IF c.nan
              THEN Skipped(c, "karana", "assemble")
              ELSE [Entered(withIdx, "karana", raw, 6 * UnitsPerDeg)
                      EXCEPT !.pc = "karanaSeek"]]
    /\ UNCHANGED <<mode, scratch, clock, angleVars, keplerVars, calendarVars>>

\* if (cb) { cb(); } at the end of Panchang.calculate
Returned(c) ==
    IF c.impl = "Panchang" /\ c.cb
    THEN [c EXCEPT !.cbCalls = @ + 1, !.cbSaw = c.assigned, !.pc = "done"]
    ELSE [c EXCEPT !.pc = "done"]

\* The zodiac index and the result object (PanchangCalculator), or the
\* assignments to the fields of the Panchang object and the callback.
Assemble(i) ==
    /\ Runs(i)
    /\ inv[i].pc = "assemble"
    /\ LET c == [Reading(i, SetFields(inv[i], PanchangFields \ {"day"}), {"ayanamsa"}, <<>>)
                   EXCEPT !.ayanamsaOut = [v |-> ReadValue(i, "ayanamsa", 0),
                                           nan |-> ReadNaN(i, "ayanamsa")]]
           nan == c.nan \/ ReadNaN(i, "ayanamsa")
           idx == zodiacIndexOf(c.moonLon, ReadValue(i, "ayanamsa", 0))
           frn == c.foreign \/ Foreign(i, "ayanamsa")
       IN inv' = [inv EXCEPT ![i] =
              IF nan THEN [Returned(c) EXCEPT !.foreign = frn]
              ELSE [Returned(SetIndex(c, "zodiac", idx)) EXCEPT !.foreign = frn]]
    /\ UNCHANGED <<mode, scratch, clock, angleVars, keplerVars, calendarVars>>

Step(i) ==
    \/ Calculate(i) \/ EvalMoon(i) \/ EvalSun(i)
    \/ YogaBegin(i) \/ YogaSeek(i)
    \/ NakshatraBegin(i) \/ NakshatraSeek(i)
    \/ TithiBegin(i) \/ KaranaBegin(i) \/ TithiSeek(i)
    \/ Assemble(i)

Next == \E i \in Calls : Step(i)

InitScratch == [k \in 0..MaxCalls |-> IF k = 0 THEN ModuleVariables ELSE EmptyContext]

\* One invocation, of either implementation, for any request.
Init ==
    /\ mode = "single"
    /\ \E impl \in Implementations, r \in Requests, cb \in BOOLEAN :
           /\ cb => impl = "Panchang"
           /\ inv = [i \in Calls |->
                        IF i = 1 THEN [Call(impl, r, "called") EXCEPT !.cb = cb]
                        ELSE IdleCall]
    /\ scratch = InitScratch
    /\ clock = 0
    /\ aFn = "none" /\ aArg = 0 /\ aVal = 0 /\ aPc = "done"
    /\ kep = IdleKepler
    /\ cal = IdleCalendar

Spec == Init /\ [][Next]_vars

----------------------------------------------------------------------------
(* Properties of one invocation                                            *)

\* The request instant as calculate sees it: local civil time, and UT.
RequestInstant(r) ==
    convertMdyToJulian(r.month, r.day, r.minute * TicksPerMinute, r.year)

RequestUT(r) ==
    convertMdyToJulian(r.month, r.day, 0, r.year)
        + r.minute * TicksPerMinute - r.tz * TicksPerMinute

Started(i) == inv[i].pc \notin {"idle", "called"}

TableSize(n) ==
    CASE n = "weekday" -> WeekdayCount
      [] n = "yoga" -> YogaCount
      [] n = "nakshatra" -> NakshatraCount
      [] n = "tithi" -> TithiCount
      [] n = "karana" -> KaranaCount
      [] n = "zodiac" -> ZodiacCount

LookupNames == IndexNames \ {"karanaRaw"}

\* C1: every index that calculate has computed for a name lookup lies inside
\* its table (tithi 0..29, nakshatra 0..26, karana 0..10, yoga 0..26, zodiac
\* 0..11, weekday 0..6), in PanchangCalculator.calculate and in
\* Panchang.calculate alike, whatever the raw yoga value is.
IndicesInRange ==
    \A i \in Calls : \A n \in inv[i].computed \cap LookupNames :
        inv[i].index[n] \in 0..(TableSize(n) - 1)

\* C2: the karana index is the piecewise function of the raw half-tithi
\* count raw = floor((Moon - Sun, wrapped positive) / 6), raw in 0..59:
\* raw = 0 gives 10, raw >= 57 gives raw - 50, every other raw gives
\* (raw - 1) mod 7; so raw 57 gives 7 and raw 8 gives 0.
KaranaMapping ==
    \A i \in Calls :
        "karana" \in inv[i].computed =>
            LET raw == inv[i].index["karanaRaw"]
                k == inv[i].index["karana"]
            IN /\ raw = ((inv[i].moonLon - inv[i].sunLon) % Circle) \div (6 * UnitsPerDeg)
               /\ raw \in 0..59
               /\ (raw = 0) => (k = 10)
               /\ (raw >= 57) => (k = raw - 50)
               /\ (raw \in 1..56) => (k = (raw - 1) % 7)
               /\ (raw = 57) => (k = 7)
               /\ (raw = 8) => (k = 0)

\* C2 witness: an invocation whose raw count is 57 has the karana index 7.
KaranaTailComputed ==
    \E i \in Calls :
        /\ "karana" \in inv[i].computed
        /\ inv[i].index["karanaRaw"] = 57
        /\ inv[i].index["karana"] = 7

\* Allowance for the rounding of delta-T and the time zone, in ticks.
SegmentSlack == 2

\* C3: each of the four intervals a finished invocation returns for the
\* request instant T has start <= T <= end, up to a few seconds.
SegmentsContainInstant ==
    \A i \in Calls :
        (inv[i].pc = "done" /\ inv[i].req.valid) =>
            \A e \in Elements :
                LET s == inv[i].seg[e]
                    T == RequestInstant(inv[i].req)
                IN (s.start.kind = "date" /\ s.end.kind = "date") =>
                       /\ TimeValue(s.start) <= T + SegmentSlack
                       /\ T <= TimeValue(s.end) + SegmentSlack

\* C6: every boundary solve ends after a bounded number of steps.  The step
\* of a solve is a function of its trial date, so a solve that comes back to
\* a trial date it has already left goes round for ever: no solve does.
SolveNeverRevisits ==
    \A i \in Calls :
        LET s == inv[i].sol
        IN (s.kind # "none" /\ s.state = "finite") => s.cur \notin s.seen

\* C8: an invocation given an Invalid Date fails with InvalidInputError
\* before any position evaluation; every other finished invocation returns a
\* complete result (seven indices, four intervals of valid dates) or has
\* reported a ConvergenceError.
InvalidInputRejected ==
    \A i \in Calls :
        /\ (Started(i) /\ ~inv[i].req.valid) =>
               (inv[i].pc = "failed" /\ inv[i].error = "InvalidInputError")
        /\ (inv[i].pc = "done" /\ inv[i].req.valid) =>
               \/ inv[i].error = "ConvergenceError"
               \/ /\ LookupNames \subseteq inv[i].computed
                  /\ \A e \in Elements :
                         inv[i].seg[e].start.kind = "date" /\ inv[i].seg[e].end.kind = "date"

\* C9: an invocation whose delta-T is evaluated for a decimal year outside
\* [1620, 2010) reports a RangeWarning, and one inside it reports none.
RangeWarningReported ==
    \A i \in Calls :
        (Started(i) /\ inv[i].req.valid) =>
            LET dy == DecimalYear(convertJulianToDate(RequestUT(inv[i].req)))
            IN ("RangeWarning" \in inv[i].warnings) <=> ~InDeltaTTable(dy)

----------------------------------------------------------------------------
(* Several invocations                                                     *)

\* The instants several invocations are made for: two ordinary ones and an
\* Invalid Date.
SharedRequests ==
    { Request(2002, 1, 13, 900, 0), Request(2002, 1, 20, 360, 0), InvalidRequest }

\* MaxCalls invocations made one after the other, each of either
\* implementation and for any of the shared instants.
InitSequential ==
    /\ mode = "single"
    /\ inv \in [Calls -> {Call(impl, r, "called") :
                             impl \in Implementations, r \in SharedRequests}]
    /\ scratch = InitScratch
    /\ clock = 0
    /\ aFn = "none" /\ aArg = 0 /\ aVal = 0 /\ aPc = "done"
    /\ kep = IdleKepler
    /\ cal = IdleCalendar

SpecSequential == InitSequential /\ [][Next]_vars

\* What an invocation returns.
ResultOf(i) == [index |-> inv[i].index, computed |-> inv[i].computed, seg |-> inv[i].seg]

\* C5: the result of calculate is a function of the instant alone: two
\* finished invocations of the same implementation for the same instant
\* have returned the same result, whatever ran before or between them.
SameInstantSameResult ==
    \A i, j \in Calls :
        ( /\ inv[i].pc = "done" /\ inv[j].pc = "done"
          /\ inv[i].impl = inv[j].impl
          /\ inv[i].req = inv[j].req ) => ResultOf(i) = ResultOf(j)

\* Two invocations of the same implementation whose steps interleave.
InitInterleaved ==
    /\ mode = "interleaved"
    /\ \E impl \in Implementations, a \in SharedRequests, b \in SharedRequests :
           /\ a.valid /\ b.valid
           /\ RequestInstant(a) < RequestInstant(b)
           /\ inv = [i \in Calls |->
                        IF i = 1 THEN Call(impl, a, "called")
                        ELSE IF i = 2 THEN Call(impl, b, "called")
                        ELSE IdleCall]
    /\ scratch = InitScratch
    /\ clock = 0
    /\ aFn = "none" /\ aArg = 0 /\ aVal = 0 /\ aPc = "done"
    /\ kep = IdleKepler
    /\ cal = IdleCalendar

SpecInterleaved == InitInterleaved /\ [][Next]_vars

\* C4: when the steps of two invocations interleave, neither ever reads a
\* scratch value (delta-T, ayanamsa, yoga accumulators, Moon angular
\* velocity) that the other wrote, in either implementation.
NoForeignScratchRead == \A i \in Calls : ~inv[i].foreign

----------------------------------------------------------------------------
(* The callback of Panchang.calculate                                      *)

\* C15: Panchang.calculate(d, cb) invokes cb exactly once, and only after
\* day, tithi, nakshatra, karana, yoga, ayanamsa and raasi have all been
\* assigned for d; without cb nothing is invoked.  An invocation therefore
\* never stays inside a computation that does not return (its callback would
\* never be invoked), it has invoked the callback once when it has returned,
\* and the callback saw every field assigned by this invocation.
CallbackOnceAfterFields ==
    \A i \in Calls : inv[i].impl = "Panchang" =>
        /\ inv[i].pc # "hung"
        /\ inv[i].cbCalls <= 1
        /\ ~inv[i].cb => inv[i].cbCalls = 0
        /\ (inv[i].cb /\ inv[i].pc = "done") => inv[i].cbCalls = 1
        /\ inv[i].cbCalls = 1 => inv[i].cbSaw = PanchangFields

----------------------------------------------------------------------------
(* Properties of the boundary solves                                       *)

Boundaries == {0, 1}

\* C16: every iterated boundary solve goes Seeking -> Converged: the Julian
\* date reported for the boundary is the trial date of the last evaluation,
\* whose error was at most 0.001 degrees in absolute value, and every trial
\* date the solve moved away from had an error above 0.001 degrees.
SeekingThenConverged ==
    \A i \in Calls :
        /\ \A e \in Elements, b \in Boundaries :
               LET f == inv[i].found[e][b]
               IN f.via = "iteration" =>
                      /\ f.state = "finite"
                      /\ f.within
                      /\ f.jd = f.last
        /\ LET s == inv[i].sol
           IN (s.kind # "none" /\ ~ReadNaN(i, "ayanamsa")) =>
                  \A d \in s.seen :
                      Abs(SeekError(s, d, ReadValue(i, "ayanamsa", 0))) > Tolerance

\* C17: in a tithi or karana solve a boundary whose target aspect is exactly
\* 0 or exactly 360 degrees is the new-moon estimate (for the lunation count
\* of the instant when the aspect is 0, for that count plus 1 when it is
\* 360), obtained without any position evaluation for that boundary; for
\* every other target aspect the boundary comes from the iteration.
NewMoonAtZeroAndFullCircle ==
    \A i \in Calls, e \in {"tithi", "karana"}, b \in Boundaries :
        LET f == inv[i].found[e][b]
            n == IF e = "tithi" THEN 30 ELSE 60
            aspect == (inv[i].index[IF e = "tithi" THEN "tithi" ELSE "karanaRaw"] + b)
                          * (Circle \div n)
        IN f.via # "none" =>
               /\ f.via = "estimator" <=> aspect \in {0, Circle}
               /\ f.via = "estimator" =>
                      /\ f.evals = 0
                      /\ f.jd = computeNewMoonJulian(
                                    LunationCount(inv[i].jd) + (IF aspect = 0 THEN 0 ELSE 1))
               /\ f.via = "iteration" => f.evals >= 1

\* The new moons near the instant of invocation i, as the estimator dates them.
NewMoonsNear(i) ==
    {computeNewMoonJulian(LunationCount(inv[i].jd) + d) : d \in -2..2}

\* C18: for an instant T in tithi 29 or karana 59 the end boundary (aspect
\* 360) is the first new moon at or after T, and for T in tithi 0 or karana 0
\* the start boundary (aspect 0) is the last new moon at or before T: the
\* boundary is never a synodic month off.
NewMoonAdjacent ==
    \A i \in Calls, e \in {"tithi", "karana"} :
        LET T == inv[i].jd
            start == inv[i].found[e][0]
            end == inv[i].found[e][1]
        IN /\ (end.via = "estimator" /\ end.target = Circle) =>
                  /\ end.jd >= T
                  /\ \A m \in NewMoonsNear(i) : ~(T <= m /\ m < end.jd)
           /\ (start.via = "estimator" /\ start.target = 0) =>
                  /\ start.jd <= T
                  /\ \A m \in NewMoonsNear(i) : ~(start.jd < m /\ m <= T)

\* C19: in the yoga solver each of the two boundaries is found by its own
\* iteration whose first trial date is the Julian date passed to the solver:
\* the upper edge does not start from the trial date the lower edge left.
YogaEdgesStartAtRequest ==
    \A i \in Calls, b \in Boundaries :
        LET f == inv[i].found["yoga"][b]
        IN f.via = "iteration" => f.first = inv[i].jd

\* C19 as amended: the iteration for the lower edge starts from the Julian
\* date passed to the solver, and the iteration for the upper edge starts
\* from the trial date at which the iteration for the lower edge ended.
YogaUpperStartsAtLower ==
    \A i \in Calls :
        LET lower == inv[i].found["yoga"][0]
            upper == inv[i].found["yoga"][1]
        IN /\ lower.via = "iteration" => lower.first = inv[i].jd
           /\ upper.via = "iteration" =>
                  /\ lower.via = "iteration"
                  /\ upper.first = lower.jd

YogaUpperCarriedOn ==
    \E i \in Calls :
        /\ inv[i].impl = "PanchangCalculator"
        /\ inv[i].found["yoga"][0].via = "iteration"
        /\ inv[i].found["yoga"][0].evals > 1
        /\ inv[i].found["yoga"][1].via = "iteration"
        /\ inv[i].found["yoga"][1].within
        /\ inv[i].found["yoga"][1].first # inv[i].jd
        /\ inv[i].found["yoga"][1].first = inv[i].found["yoga"][0].jd

\* C20: in every Seeking step of every boundary solve, in both
\* implementations, the Moon angular velocity in the rate divisor is the one
\* the Moon evaluation of that step stored at that trial date: never an
\* initial, default or stale value.
VelocityFromEvaluation ==
    \A i \in Calls : inv[i].rates \subseteq {"evaluation"}

\* C21: no step of any boundary solve divides by zero, in either
\* implementation: the rate a trial date is advanced by is never 0, so the
\* trial date stays finite.
RateNeverZero ==
    \A i \in Calls :
        /\ 0 \notin inv[i].divisors
        /\ (inv[i].sol.kind # "none" /\ inv[i].sol.steps > 0) =>
               inv[i].sol.state # "nonfinite"

TithiEndsAtNewMoon ==
    \E i \in Calls :
        /\ inv[i].impl = "PanchangCalculator"
        /\ inv[i].index["tithi"] = 29
        /\ inv[i].found["tithi"][0].via = "iteration"
        /\ inv[i].found["tithi"][1].via = "estimator"
        /\ inv[i].found["tithi"][1].evals = 0

\* The angle a solver measures at the trial date jd: the yoga value, the
\* sidereal longitude of the Moon, or the elongation of the Moon from the Sun.
MeasuredAngle(kind, jd, ay) ==
    IF kind = "yoga"
    THEN YogaValue(MoonLongitudeForYoga(jd), SunLongitudeForYoga(jd), ay)
    ELSE IF kind = "nakshatra" THEN computeMoonLongitude(jd) + ay
    ELSE computeMoonLongitude(jd) - computeSunLongitude(jd)

\* C22: in every step of every solve the signed error is congruent to
\* (target - measured angle) modulo 360 degrees and lies within
\* [-180, 180] degrees, so the step moves toward the nearest occurrence of
\* the target.
ErrorTowardNearest ==
    \A i \in Calls :
        LET s == inv[i].sol
            measured == MeasuredAngle(s.kind, s.at, ReadValue(i, "ayanamsa", 0))
        IN (s.kind # "none" /\ s.steps > 0) =>
               /\ (s.err - (Target(s) - measured)) % Circle = 0
               /\ Abs(s.err) <= 180 * UnitsPerDeg

\* C23: for every raw yoga value rawYoga, PanchangCalculator reports the
\* yoga index floor(rawYoga * 6 / 80) reduced modulo 27, and its yoga solver
\* was given the targets lower = floor(rawYoga * 6 / 80) * (80 / 6) and
\* upper = lower + 80 / 6 with lower <= rawYoga < upper (compared in thirds
\* of a unit, n * 80 / 6 degrees being 40000 n / 3 units).
YogaIndexMatchesTargets ==
    \A i \in Calls : \A b \in Boundaries :
        LET c == inv[i]
            n == (3 * c.raw) \div (40 * UnitsPerDeg)
        IN (c.impl = "PanchangCalculator" /\ c.found["yoga"][b].via # "none"
               /\ c.found["yoga"][b].state = "finite") =>
               /\ c.index["yoga"] = n % 27
               /\ c.found["yoga"][b].target = ((n + b) * 40 * UnitsPerDeg) \div 3
               /\ n * 40 * UnitsPerDeg <= 3 * c.raw
               /\ 3 * c.raw < (n + 1) * 40 * UnitsPerDeg

\* Both yoga edges of a raw yoga value outside the first turn were solved.
YogaOfLaterTurnSolved ==
    \E i \in Calls :
        LET c == inv[i]
        IN /\ c.impl = "PanchangCalculator"
           /\ c.found["yoga"][1].via = "iteration"
           /\ c.found["yoga"][1].within
           /\ c.found["yoga"][0].within
           /\ c.index["yoga"] # SpanIndex(c.raw)

\* C24: the perturbation tables of the Moon keep the contents they were
\* loaded with: no position evaluation and no solver step of any invocation
\* writes a row, and no loop over a table, the legacy loops to 93 and 27
\* included, reads a row past the end of its table.
TablesReadWithinBounds ==
    \A i \in Calls : \A t \in MoonTables :
        /\ inv[i].rowsWritten[t] = {}
        /\ inv[i].rows[t] < TableRows(inv[i].impl, t)

\* A legacy invocation made after an earlier one returned has ended a solve
\* whose passes read both tables up to their last row.
LegacyReadLastRows ==
    \E i \in Calls :
        /\ inv[i].impl = "Panchang"
        /\ \E j \in Calls : j < i /\ inv[j].pc = "done"
        /\ inv[i].found["yoga"][1].evals > 0
        /\ inv[i].rows["primary"] = CorrMoonDataRows - 1
        /\ inv[i].rows["secondary"] = CorrMoon2DataRows - 1

\* C25: within one PanchangCalculator.calculate call no scratch value is
\* read before that call has written it, so no `??` default is used: delta-T
\* and the ayanamsa are written before the first position evaluation and
\* before any solver runs, the accumulators and the velocity by a position
\* evaluation before each use.
ContextWrittenBeforeRead ==
    \A i \in Calls :
        LET c == inv[i]
        IN c.impl = "PanchangCalculator" =>
              /\ c.unwritten = {}
              /\ c.pc \notin {"idle", "called"} =>
                     /\ ReadCell(i, "deltaT").by = i
                     /\ ReadCell(i, "ayanamsa").by = i
              /\ c.pc \notin {"idle", "called", "moon", "sun"} =>
                     \A f \in ScratchFields : ReadCell(i, f).by = i

\* The second of two PanchangCalculator calls returned after solver steps of
\* all four elements.
SecondCallSolvedAll ==
    \E i \in Calls :
        /\ i > 1
        /\ inv[i].impl = "PanchangCalculator"
        /\ inv[i].pc = "done"
        /\ \A e \in Elements : inv[i].found[e][1].via # "none"
        /\ \E e \in Elements : inv[i].found[e][1].evals > 1

\* C26: no solver and no position evaluation of a PanchangCalculator call
\* changes delta-T or the ayanamsa of its context: every boundary instant
\* is converted with one delta-T (the one the context still holds) and the
\* timezone offset of the request, and the ayanamsa reported is the one
\* every solver pass read.
DeltaTAndAyanamsaKept ==
    \A i \in Calls :
        LET c == inv[i]
            held(f) == [v |-> ReadCell(i, f).v, nan |-> ReadCell(i, f).nan]
        IN c.impl = "PanchangCalculator" =>
              /\ \A f \in DOMAIN c.used : c.used[f] \subseteq {held(f)}
              /\ c.pc = "done" => c.used["ayanamsa"] = {c.ayanamsaOut}
              /\ \A e \in Elements :
                    /\ c.found[e][0].via # "none" =>
                           c.seg[e].start = BoundaryDate(i, c.found[e][0].jd,
                                                c.found[e][0].state = "finite")
                    /\ c.found[e][1].via # "none" =>
                           c.seg[e].end = BoundaryDate(i, c.found[e][1].jd,
                                              c.found[e][1].state = "finite")

\* A call away from UTC returned eight boundary instants, all converted, the
\* nakshatra and the yoga after several passes that read the ayanamsa.
EightInstantsConverted ==
    \E i \in Calls :
        LET c == inv[i]
        IN /\ c.impl = "PanchangCalculator"
           /\ c.pc = "done"
           /\ c.req.tz # 0
           /\ \A e \in Elements : \A b \in Boundaries :
                  c.found[e][b].via # "none" /\ c.found[e][b].state = "finite"
           /\ c.found["nakshatra"][0].evals > 1
           /\ c.found["yoga"][0].evals > 1
           /\ c.used["deltaT"] # {}

----------------------------------------------------------------------------
(* The tithi and karana indices of any pair of longitudes                  *)

\* Spacing of the sampled longitudes.
LongitudeStep == 3000

\* Normalized longitudes: the multiples of the spacing, one unit above and
\* one unit below them.
MoonSamples ==
    {a \in {k * LongitudeStep + d : k \in 0..(Circle \div LongitudeStep),
                                    d \in {0, 1, LongitudeStep - 1}} : a < Circle}

SunSamples == {a \in {k * 10 * LongitudeStep : k \in 0..12} : a < Circle}

\* calculate after its two position evaluations returned the normalized
\* longitudes moonLon and sunLon.
IndicesInit ==
    /\ mode = "single"
    /\ \E impl \in Implementations, m \in MoonSamples, s \in SunSamples :
           inv = [i \in Calls |->
                     IF i = 1
                     THEN [Call(impl, InvalidRequest, "tithi")
                             EXCEPT !.moonLon = m, !.sunLon = s]
                     ELSE IdleCall]
    /\ scratch = InitScratch
    /\ clock = 0
    /\ aFn = "none" /\ aArg = 0 /\ aVal = 0 /\ aPc = "done"
    /\ kep = IdleKepler
    /\ cal = IdleCalendar

\* const tithiIndex = Math.floor((adjustedMoonLongitudeForTithi - sunLongitude) / 12)
TithiIndexed(i) ==
    /\ inv[i].pc = "tithi"
    /\ inv' = [inv EXCEPT ![i] =
           [SetIndex(@, "tithi", tithiIndexOf(@.moonLon, @.sunLon)) EXCEPT !.pc = "karana"]]
    /\ UNCHANGED <<mode, scratch, clock, angleVars, keplerVars, calendarVars>>

\* const karanaRawIndex = Math.floor((... - ...) / 6), and karanaIndex from it
KaranaIndexed(i) ==
    /\ inv[i].pc = "karana"
    /\ LET raw == karanaRawIndexOf(inv[i].moonLon, inv[i].sunLon)
       IN inv' = [inv EXCEPT ![i] =
              [SetIndex(SetIndex(@, "karanaRaw", raw), "karana", karanaIndexOf(raw))
                 EXCEPT !.pc = "indexed"]]
    /\ UNCHANGED <<mode, scratch, clock, angleVars, keplerVars, calendarVars>>

IndicesNext == \E i \in Calls : TithiIndexed(i) \/ KaranaIndexed(i)

SpecIndices == IndicesInit /\ [][IndicesNext]_vars

\* C27: for every pair of normalized longitudes of the Moon and the Sun, the
\* tithi index is the integer half of the karana raw count,
\* floor(karanaRaw / 2).
TithiIsHalfKarana ==
    \A i \in Calls :
        {"tithi", "karanaRaw"} \subseteq inv[i].computed =>
            inv[i].index["tithi"] = inv[i].index["karanaRaw"] \div 2

\* The indices of a Moon behind the Sun in the second half of a tithi.
OddKaranaBehindSun ==
    \E i \in Calls :
        /\ {"tithi", "karanaRaw"} \subseteq inv[i].computed
        /\ inv[i].moonLon < inv[i].sunLon
        /\ inv[i].index["karanaRaw"] % 2 = 1
        /\ inv[i].index["karanaRaw"] >= 57

----------------------------------------------------------------------------
(* convertMdyToJulian over successive civil instants                       *)

\* Civil days the machine steps through from its first date.
MaxReformDays == 3

\* First dates: before and at the calendar reform (1582-10-04 is followed by
\* 1582-10-15), and ends of months and years after it.
ReformStarts ==
    { <<1582, 10, 3>>, <<1582, 10, 4>>, <<1582, 10, 15>>, <<1582, 12, 30>>,
      <<1600, 2, 27>>, <<1700, 2, 27>>, <<1999, 12, 30>>, <<2024, 2, 27>> }

\* The civil day after y-m-d: the days 1582-10-05 .. 1582-10-14 do not exist.
NextValidCivilDay(y, m, d) ==
    IF <<y, m, d>> = <<1582, 10, 4>> THEN <<1582, 10, 15>> ELSE NextCivilDay(y, m, d)

\* The civil date is of the Gregorian calendar: 1582-10-15 or later.
OnOrAfterReform(y, m, d) ==
    y > 1582 \/ (y = 1582 /\ (m > 10 \/ (m = 10 /\ d >= 15)))

\* The Julian date of a civil instant of the Gregorian calendar, from the
\* count of its days: 0001-01-01 is Julian day number 1721426.
GregorianJulianDate(y, m, d, tod) ==
    (CivilDayNumber(y, m, d) + 1721425 - EpochJD) * TicksPerDay + tod - TicksPerDay \div 2

\* A civil instant given to convertMdyToJulian; prev is what the function
\* returned for the instant before it.
ReformDate(y, m, d, tod, steps, hasPrev, prev) ==
    [pc |-> "given", year |-> y, month |-> m, day |-> d, tod |-> tod,
     steps |-> steps, hasPrev |-> hasPrev, prev |-> prev, jd |-> 0]

ReformInit ==
    /\ \E s \in ReformStarts, tod \in CalendarTimes :
           cal = ReformDate(s[1], s[2], s[3], tod, 0, FALSE, 0)
    /\ aFn = "none" /\ aArg = 0 /\ aVal = 0 /\ aPc = "done"
    /\ mode = "none"
    /\ inv = <<>>
    /\ scratch = <<>>
    /\ clock = 0
    /\ kep = IdleKepler

\* convertMdyToJulian(month, day + fraction, year)
MdyToJulian ==
    /\ cal.pc = "given"
    /\ cal' = [cal EXCEPT !.pc = "julian",
                          !.jd = convertMdyToJulian(cal.month, cal.day, cal.tod, cal.year)]
    /\ UNCHANGED <<angleVars, calcVars, keplerVars>>

\* then a later time of the same civil day
LaterSameDay ==
    /\ cal.pc = "julian"
    /\ \E tod \in CalendarTimes :
           /\ tod > cal.tod
           /\ cal' = ReformDate(cal.year, cal.month, cal.day, tod, cal.steps, TRUE, cal.jd)
    /\ UNCHANGED <<angleVars, calcVars, keplerVars>>

\* or any time of the next civil day
LaterDay ==
    /\ cal.pc = "julian"
    /\ cal.steps < MaxReformDays
    /\ LET n == NextValidCivilDay(cal.year, cal.month, cal.day)
       IN \E tod \in CalendarTimes :
              cal' = ReformDate(n[1], n[2], n[3], tod, cal.steps + 1, TRUE, cal.jd)
    /\ UNCHANGED <<angleVars, calcVars, keplerVars>>

ReformNext == MdyToJulian \/ LaterSameDay \/ LaterDay

SpecReform == ReformInit /\ [][ReformNext]_vars

\* C28: convertMdyToJulian is strictly increasing in the civil instant over
\* valid civil dates, across the calendar reform too (1582-10-15 00:00
\* against any later time of that day or of the next), and the reform
\* correction is applied to every instant on or after 1582-10-15 00:00.
MdyIncreasingAcrossReform ==
    cal.pc = "julian" =>
        /\ cal.hasPrev => cal.prev < cal.jd
        /\ OnOrAfterReform(cal.year, cal.month, cal.day) =>
               cal.jd = GregorianJulianDate(cal.year, cal.month, cal.day, cal.tod)

----------------------------------------------------------------------------
(* The length of the intervals returned                                    *)

\* More than any segment can last: the slowest Moon covers 12 degrees of
\* elongation or 13 1/3 degrees of longitude in about 27 hours, and half a
\* tithi in half of that.
LongestSegment(e) ==
    IF e = "karana" THEN 14 * 60 * TicksPerMinute ELSE 28 * 60 * TicksPerMinute

\* C29: for every request, each of the four intervals returned has its start
\* strictly before its end and is no longer than one segment can last: the
\* upper boundary is the first crossing after the lower one, not one a cycle
\* later.
IntervalsWithinOneSegment ==
    \A i \in Calls :
        (inv[i].pc = "done" /\ inv[i].req.valid) =>
            \A e \in Elements :
                LET s == inv[i].seg[e]
                IN (s.start.kind = "date" /\ s.end.kind = "date") =>
                       /\ TimeValue(s.start) < TimeValue(s.end)
                       /\ TimeValue(s.end) - TimeValue(s.start) <= LongestSegment(e)

----------------------------------------------------------------------------
(* The two implementations side by side                                    *)

\* C30: PanchangCalculator and Panchang agree for the same request (hence
\* the same longitudes, ayanamsa and raw yoga value): they compute the same
\* weekday, tithi, karana, nakshatra, yoga and raasi indices, and their
\* solvers go through the same trial dates to the same boundaries.
ImplementationsAgree ==
    \A i, j \in Calls :
        (/\ inv[i].impl = "PanchangCalculator" /\ inv[j].impl = "Panchang"
         /\ inv[i].req = inv[j].req /\ inv[i].req.valid) =>
            /\ \A n \in inv[i].computed \cap inv[j].computed :
                   inv[i].index[n] = inv[j].index[n]
            /\ \A e \in Elements : \A b \in Boundaries :
                   (inv[i].found[e][b].via # "none" /\ inv[j].found[e][b].via # "none") =>
                       inv[i].found[e][b] = inv[j].found[e][b]

====
